---- MODULE Spec2Model ----
(***************************************************************************)
(* The file-backed profile store (UserStorageManager) and the Express      *)
(* handlers that drive it.  Every HTTP request is a process that runs its  *)
(* handler from one await to the next; the JSON document users.json and    *)
(* the profile-pictures directory are shared by all of them, with no lock. *)
(***************************************************************************)
EXTENDS Integers, Sequences, FiniteSets, TLC

\* ------------------------------------------------------------------ bounds
\* Requests that can be in flight at once.
NumProcs == 2
\* uuidv4() calls in one behaviour (record ids and picture file names).
MaxUuid == 4
\* The wall clock runs from 0 to MaxClock.
MaxClock == 1
\* Requests served in one behaviour.
MaxRequests == 3

Procs == 1..NumProcs

\* ------------------------------------------------------- JavaScript values
Undefined == "undefined"
Null == "null"

\* if (v) ... / v || w  for a string, null or undefined
Truthy(v) == v \notin {Undefined, Null, ""}

\* a || b
Or(a, b) == IF Truthy(a) THEN a ELSE b

\* obj.key: undefined when the object has no such key
Get(obj, k) == IF k \in DOMAIN obj THEN obj[k] ELSE Undefined

\* { ...a, ...b }
Spread(a, b) ==
    [k \in DOMAIN a \cup DOMAIN b |-> IF k \in DOMAIN b THEN b[k] ELSE a[k]]

\* Keys whose value can be undefined (every other key holds an array or a
\* value the code always sets).
StrKeys == {"fullName", "profession", "profilePicture"}

\* (mutant) a serializer that leaves out null values as well
StringifyObjNoNull(obj) ==
    [k \in {j \in DOMAIN obj :
               ~(j \in StrKeys /\ obj[j] \in {Undefined, Null})} |-> obj[k]]

\* JSON.stringify of one object: a key whose value is undefined is left out.
StringifyObj(obj) ==
    [k \in {j \in DOMAIN obj : ~(j \in StrKeys /\ obj[j] = Undefined)} |-> obj[k]]

\* JSON.stringify(users, null, 2): the text of the document.
JSON_stringify(arr) == [json |-> [i \in 1..Len(arr) |-> StringifyObj(arr[i])]]

\* JSON.parse of a text JSON.stringify wrote.
JSON_parse(text) == text.json

\* (mutant) an identifier that is the same at every draw
uuidv4Fixed(n) == "u1"

\* uuidv4(): the n-th identifier drawn; no two draws are equal.
uuidv4(n) == "u" \o ToString(n)

\* new Date().toISOString() at clock reading t
toISOString(t) == <<"ISO", t>>

\* ------------------------------------------------ request fields (JSON text)
TxtEmptyList == "[]"
TxtSkills == "[\"x\"]"
TxtNewSkills == "[\"y\"]"
TxtProjects == "[{\"name\":\"p\",\"link\":\"l\"}]"
TxtSocials == "[{\"platform\":\"s\",\"link\":\"l\"}]"
TxtMalformed == "{"

\* JSON.parse(req.body.skills) and the like: the texts that parse
Parses(text) ==
    text \in {TxtEmptyList, TxtSkills, TxtNewSkills, TxtProjects, TxtSocials}

ParseField(text) ==
    CASE text = TxtSkills -> <<"x">>
      [] text = TxtNewSkills -> <<"y">>
      [] text = TxtProjects -> <<[name |-> "p", link |-> "l"]>>
      [] text = TxtSocials -> <<[platform |-> "s", link |-> "l"]>>
      [] OTHER -> <<>>

\* req.body.skills ? JSON.parse(req.body.skills) : dflt
ParseOr(body, k, dflt) ==
    IF Truthy(Get(body, k)) THEN ParseField(body[k]) ELSE dflt

\* The first JSON.parse of the handler that throws a SyntaxError, if any.
ListKeys == <<"skills", "projects", "socials">>
ParseThrows(body) ==
    \E i \in 1..3 : Truthy(Get(body, ListKeys[i])) /\ ~Parses(body[ListKeys[i]])

\* --------------------------------------------------------------- uploads
\* 10 * 1024 * 1024
MaxFileSize == 10485760

\* (mutant) the mime type is not looked at
IsImageAny(file) == TRUE

\* file.mimetype is <<type, subtype>>; file.mimetype.startsWith('image/')
IsImage(file) == file.mimetype[1] = "image"

TooLarge(file) == file.size > MaxFileSize

\* path.extname(file.originalname); originalname is <<stem, extension>>
extname(name) == name[2]

\* ------------------------------------------------------------ the requests
Body(fullName, profession, skills, projects, socials) ==
    [fullName |-> fullName, profession |-> profession, skills |-> skills,
     projects |-> projects, socials |-> socials]

\* req.body of the requests tried; a field that was not sent reads undefined
OnlyName == Body("Ann", Undefined, Undefined, Undefined, Undefined)
NoFields == Body(Undefined, Undefined, Undefined, Undefined, Undefined)
BlankName == Body("", Undefined, Undefined, Undefined, Undefined)
AllFields == Body("Bob", "dev", TxtSkills, TxtProjects, TxtSocials)
OnlyProfession == Body(Undefined, "qa", Undefined, Undefined, Undefined)
OnlySkills == Body(Undefined, Undefined, TxtNewSkills, Undefined, Undefined)
BadSkills == Body("Ann", Undefined, TxtMalformed, Undefined, Undefined)

\* req.file: absent, or what multer hands over
NoUpload == [present |-> FALSE, mimetype |-> <<"", "">>, size |-> 0,
             originalname |-> <<"", "">>]
Upload(type, subtype, size, ext) ==
    [present |-> TRUE, mimetype |-> <<type, subtype>>, size |-> size,
     originalname |-> <<"pic", ext>>]
Png == Upload("image", "png", 1024, ".png")
Pdf == Upload("application", "pdf", 1024, ".pdf")
HugePng == Upload("image", "png", MaxFileSize + 1, ".png")

\* images under the other file names the picture route tells apart
PngUpper == Upload("image", "png", 1024, ".PNG")
Jpg == Upload("image", "jpeg", 1024, ".jpg")
Jpeg == Upload("image", "jpeg", 1024, ".jpeg")
Gif == Upload("image", "gif", 1024, ".gif")
Mislabelled == Upload("image", "png", 1024, ".pdf")
NoExtension == Upload("image", "png", 1024, "")
PictureInputs ==
    ({OnlyName} \X {NoUpload, Png, PngUpper, Jpg, Jpeg, Gif, Mislabelled, NoExtension})

PostInputs ==
    ({OnlyName, NoFields, BlankName, AllFields, BadSkills} \X {NoUpload})
        \cup ({OnlyName, BadSkills} \X {Png}) \cup ({OnlyName} \X {Pdf, HugePng})

PutInputs ==
    ({NoFields, BlankName, OnlyProfession, OnlySkills, BadSkills} \X {NoUpload})
        \cup ({NoFields} \X {Png, Pdf, HugePng})

\* req.params.id: any identifier, issued yet or not
Ids == {uuidv4(n) : n \in 1..MaxUuid}

NoRequest ==
    [method |-> "", route |-> "", id |-> Undefined, body |-> NoFields,
     file |-> NoUpload]
Request(method, route, id, body, file) ==
    [method |-> method, route |-> route, id |-> id, body |-> body, file |-> file]

\* --------------------------------------------------------------- the state
VARIABLES
    usersFile,       \* storage/users.json: absent, or its text
    pictures,        \* the file names in storage/profile-pictures
    uuidCount,       \* how many identifiers uuidv4() has issued
    clock,           \* the wall clock
    nodeEnv,         \* process.env.NODE_ENV
    served,          \* how many requests the server has taken
    pc,              \* where each request's handler stands
    req,             \* the request each handler serves
    existingUser,    \* updateUser handler: the record getUserById returned
    userData,        \* userData / updatedData of the create and update handlers
    users,           \* the store method's users array, as getAllUsers returned it
    writing,         \* the text the store method has handed to fs.writeFile
    returned,        \* what the store method is about to return to the handler
    resp,            \* the response sent
    orm,             \* the ORM-backed variant: its table, its upload directory
    ormResp,         \* the response the ORM-backed variant sent to the same request
    atomic           \* the same store operations applied to an in-memory list

vars == <<usersFile, pictures, uuidCount, clock, nodeEnv, served, pc, req,
          existingUser, userData, users, writing, returned, resp, orm, ormResp,
          atomic>>

\* what a handler keeps between its awaits, besides its place and response
frame == <<req, existingUser, userData, users, writing, returned>>

shared == <<usersFile, pictures, uuidCount, clock, nodeEnv>>

NoSuchFile == [exists |-> FALSE, text |-> JSON_stringify(<<>>)]
FileWith(text) == [exists |-> TRUE, text |-> text]

\* find() that found nothing; no record of the store looks like this
NoUser == [id |-> Undefined]
NoData == [profilePicture |-> Null]
NoResponse == [status |-> 0, body |-> [message |-> ""]]
NoText == JSON_stringify(<<>>)

\* The ORM-backed variant before any request: an empty users table, an empty
\* uploads/profile-pictures, no key or file name issued; twin is the primary
\* key under which a client of both variants finds the record that the
\* file-backed variant holds under a given id.
OrmStart ==
    [table |-> <<>>, uploads |-> {}, autoIncrement |-> 0, uuidCount |-> 0,
     twin |-> [id \in Ids |-> Undefined]]

\* The in-memory list before any operation, and which handlers' operations
\* have been applied to it.
AtomicStart == [list |-> <<>>, applied |-> [p \in Procs |-> FALSE]]

\* ------------------------------------------------- UserStorageManager, pure
\* getAllUsers: the parsed document, or [] when readFile raises ENOENT
getAllUsers(file) == IF file.exists THEN JSON_parse(file.text) ELSE <<>>

\* (mutant) findIndex(user => user.id = id): an assignment, true of the
\* first record whatever its id
findIndexFirst(arr, id) ==
    IF \E i \in 1..Len(arr) : Get(arr[i], "id") = id
    THEN CHOOSE i \in 1..Len(arr) :
           /\ Get(arr[i], "id") = id
           /\ \A j \in 1..(i - 1) : Get(arr[j], "id") # id
    ELSE IF Len(arr) > 0 THEN 1 ELSE -1

\* users.findIndex(user => user.id === id)
findIndex(arr, id) ==
    IF \E i \in 1..Len(arr) : Get(arr[i], "id") = id
    THEN CHOOSE i \in 1..Len(arr) :
           /\ Get(arr[i], "id") = id
           /\ \A j \in 1..(i - 1) : Get(arr[j], "id") # id
    ELSE -1

\* users.find(user => user.id === id)
find(arr, id) == IF findIndex(arr, id) = -1 THEN NoUser ELSE arr[findIndex(arr, id)]

\* getUserById(id)
getUserById(file, id) == find(getAllUsers(file), id)

\* (mutant) users.splice(userIndex): the record and every one after it go
spliceFrom(arr, id) ==
    IF findIndex(arr, id) = -1 THEN arr ELSE SubSeq(arr, 1, findIndex(arr, id) - 1)

\* (mutant) filter(user => user.id === id): the test inverted
filterKept(arr, id) == SelectSeq(arr, LAMBDA u : Get(u, "id") = id)

\* (mutant) filter's result dropped: the array is written back as it was read
filterNone(arr, id) == arr

\* users.filter(user => user.id !== id)
filter(arr, id) == SelectSeq(arr, LAMBDA u : Get(u, "id") # id)

\* (mutant) users = [newUser]: the array read is dropped
pushOnly(arr, user) == <<user>>

\* (mutant) users.unshift(newUser)
unshift(arr, user) == <<user>> \o arr

\* users.push(newUser)
push(arr, user) == Append(arr, user)

\* createUser: { ...userData, id, createdAt, updatedAt }
NewUser(data, id, created, updated) ==
    Spread(data, [id |-> id, createdAt |-> toISOString(created),
                  updatedAt |-> toISOString(updated)])

\* (mutant) the spread the wrong way round: { ...updatedData, ...users[userIndex] }
MergedUserSwapped(old, data, updated) ==
    Spread(Spread(data, old), [updatedAt |-> toISOString(updated)])

\* (mutant) the merge without the updatedAt line
MergedUserStale(old, data, updated) == Spread(old, data)

\* updateUser: { ...users[userIndex], ...updatedData, updatedAt }
MergedUser(old, data, updated) ==
    Spread(Spread(old, data), [updatedAt |-> toISOString(updated)])

\* getProfilePicture(filename): the bytes, or null when readFile raises ENOENT
getProfilePicture(dir, filename) == IF filename \in dir THEN filename ELSE Null

\* ------------------------------------------------------- the handlers, pure
\* multer: fileFilter, then limits.fileSize; a refused upload goes to next(err)
MulterRefuses(file) == file.present /\ (~IsImage(file) \/ TooLarge(file))

\* (mutant) the lists default to [''], what ''.split(',') gives
CreateDataBlank(body) ==
    [fullName |-> body.fullName,
     profession |-> Or(body.profession, Null),
     skills |-> ParseOr(body, "skills", <<"">>),
     projects |-> ParseOr(body, "projects", <<"">>),
     socials |-> ParseOr(body, "socials", <<"">>),
     profilePicture |-> Null]

\* createUser handler: userData before the upload
CreateData(body) ==
    [fullName |-> body.fullName,
     profession |-> Or(body.profession, Null),
     skills |-> ParseOr(body, "skills", <<>>),
     projects |-> ParseOr(body, "projects", <<>>),
     socials |-> ParseOr(body, "socials", <<>>),
     profilePicture |-> Null]

\* (mutant) the create handler's defaults copied into the update handler:
\* a field that is not sent is reset instead of kept
UpdateDataReplace(body, old) ==
    [fullName |-> Or(body.fullName, Get(old, "fullName")),
     profession |-> Or(body.profession, Null),
     skills |-> ParseOr(body, "skills", <<>>),
     projects |-> ParseOr(body, "projects", <<>>),
     socials |-> ParseOr(body, "socials", <<>>),
     profilePicture |-> Get(old, "profilePicture")]

\* updateUser handler: updatedData before the upload
UpdateData(body, old) ==
    [fullName |-> Or(body.fullName, Get(old, "fullName")),
     profession |-> Or(body.profession, Get(old, "profession")),
     skills |-> ParseOr(body, "skills", Get(old, "skills")),
     projects |-> ParseOr(body, "projects", Get(old, "projects")),
     socials |-> ParseOr(body, "socials", Get(old, "socials")),
     profilePicture |-> Get(old, "profilePicture")]

\* res.status(500).json({ message, error: error.message })
Failure(message, error) ==
    [status |-> 500, body |-> [message |-> message, error |-> error]]

\* app.use((err, req, res, next) => ...): the application's error handler
ErrorHandler(env, error) ==
    [status |-> 500,
     body |-> [message |-> "Something went wrong!",
               error |-> IF env = "production" THEN "{}" ELSE error]]

MulterError(file) ==
    IF ~IsImage(file) THEN "Not an image! Please upload an image."
    ELSE "File too large"

\* res.status(code).json(value)
Json(code, value) == [status |-> code, body |-> value]

\* uploadProfilePicture: the two checks it makes before it writes
UploadError(file) ==
    IF ~IsImage(file) THEN "Not an image! Please upload an image."
    ELSE IF TooLarge(file) THEN "File too large. Maximum size is 10MB."
    ELSE ""

\* (mutant) the identifier drawn once, when the module loads, and used in
\* every file name
FilenameShared(n, file) == uuidv4(1) \o extname(file.originalname)

\* `${uuidv4()}${path.extname(file.originalname)}`
Filename(n, file) == uuidv4(n) \o extname(file.originalname)

\* path.extname(user.profilePicture) of a stored file name
Extensions == {".png", ".PNG", ".jpg", ".jpeg", ".gif", ".pdf", ""}
extnameOf(filename) ==
    CHOOSE e \in Extensions : \E n \in 1..MaxUuid : filename = uuidv4(n) \o e

\* (mutant) the extension compared as it is stored
toLowerCaseNot(ext) == ext

\* String.prototype.toLowerCase on an extension
toLowerCase(ext) ==
    CASE ext = ".PNG" -> ".png"
      [] OTHER -> ext

\* getProfilePicture handler: the content type for the stored file's extension
ContentType(filename) ==
    LET ext == toLowerCase(extnameOf(filename))
    IN  CASE ext = ".png" -> "image/png"
          [] ext \in {".jpg", ".jpeg"} -> "image/jpeg"
          [] ext = ".gif" -> "image/gif"
          [] OTHER -> "application/octet-stream"

\* ------------------------------------------------------------------- Init
Init ==
    /\ usersFile = NoSuchFile
    /\ pictures = {}
    /\ uuidCount = 0
    /\ clock = 0
    /\ nodeEnv = "development"
    /\ served = 0
    /\ pc = [p \in Procs |-> "idle"]
    /\ req = [p \in Procs |-> NoRequest]
    /\ existingUser = [p \in Procs |-> NoUser]
    /\ userData = [p \in Procs |-> NoData]
    /\ users = [p \in Procs |-> <<>>]
    /\ writing = [p \in Procs |-> NoText]
    /\ returned = [p \in Procs |-> NoUser]
    /\ resp = [p \in Procs |-> NoResponse]
    /\ orm = OrmStart
    /\ ormResp = [p \in Procs |-> NoResponse]
    /\ atomic = AtomicStart

\* A handler that is between two awaits of createUser has one identifier
\* still to draw.
Reserved == Cardinality({p \in Procs : pc[p] = "c_read"})

\* A request is taken only while the identifiers it will draw are left.
CanDraw(n) == uuidCount + Reserved + n <= MaxUuid

\* A request is served by the first handler slot that is free, once the
\* handlers that have answered have returned.
Free(p) ==
    /\ pc[p] = "idle"
    /\ \A q \in Procs : pc[q] # "done" /\ (q < p => pc[q] # "idle")

\* The handler takes request r.
Take(p, r) ==
    /\ Free(p)
    /\ served < MaxRequests
    /\ served' = served + 1
    /\ req' = [req EXCEPT ![p] = r]

\* The handler sends response r.
Respond(p, r) ==
    /\ resp' = [resp EXCEPT ![p] = r]
    /\ pc' = [pc EXCEPT ![p] = "done"]
    /\ UNCHANGED <<orm, ormResp, atomic>>

\* The handler awaits the I/O that `label` completes.
Await(p, label) ==
    /\ pc' = [pc EXCEPT ![p] = label]
    /\ resp' = resp
    /\ UNCHANGED <<orm, ormResp, atomic>>

\* ------------------------------------------------------- POST /api/users
\* What createUser does with the request before it calls the store:
\* "refused" by multer, "throws", or "store".
PostOutcome(body, file) ==
    IF MulterRefuses(file) THEN "refused"
    ELSE IF ParseThrows(body) THEN "throws"
    ELSE IF file.present /\ UploadError(file) # "" THEN "throws"
    ELSE "store"

\* uploadMiddleware, then the createUser handler up to the call of the
\* store's createUser.  The picture file is written here: no other handler
\* can name it before the document lists it.
PostUser(p, body, file) ==
    LET outcome == PostOutcome(body, file)
        draws == IF outcome # "store" THEN 0 ELSE IF file.present THEN 2 ELSE 1
        filename == Filename(uuidCount + 1, file)
    IN  /\ Take(p, Request("POST", "/api/users", Undefined, body, file))
        /\ CanDraw(draws)
        /\ UNCHANGED <<usersFile, clock, nodeEnv, existingUser, users, writing,
                       returned>>
        /\ CASE outcome = "refused" ->
                  /\ Respond(p, ErrorHandler(nodeEnv, MulterError(file)))
                  /\ UNCHANGED <<pictures, uuidCount, userData>>
             [] outcome = "throws" ->
                  /\ Respond(p, Failure("Error creating user",
                        IF ParseThrows(body) THEN "SyntaxError" ELSE UploadError(file)))
                  /\ UNCHANGED <<pictures, uuidCount, userData>>
             [] outcome = "store" /\ file.present ->
                  /\ pictures' = pictures \cup {filename}
                  /\ uuidCount' = uuidCount + 1
                  /\ userData' = [userData EXCEPT
                        ![p] = [CreateData(body) EXCEPT !.profilePicture = filename]]
                  /\ Await(p, "c_read")
             [] OTHER ->
                  /\ userData' = [userData EXCEPT ![p] = CreateData(body)]
                  /\ Await(p, "c_read")
                  /\ UNCHANGED <<pictures, uuidCount>>

\* createUser: getAllUsers() returns; the record is built, pushed, and the
\* stringified array handed to fs.writeFile
CreateRead(p) ==
    /\ pc[p] = "c_read"
    /\ \E created \in clock..MaxClock : \E updated \in created..MaxClock :
         LET arr == getAllUsers(usersFile)
             newUser == NewUser(userData[p], uuidv4(uuidCount + 1), created, updated)
         IN  /\ users' = [users EXCEPT ![p] = arr]
             /\ writing' = [writing EXCEPT ![p] = JSON_stringify(push(arr, newUser))]
             /\ returned' = [returned EXCEPT ![p] = newUser]
             /\ clock' = updated
    /\ uuidCount' = uuidCount + 1
    /\ Await(p, "c_write")
    /\ UNCHANGED <<usersFile, pictures, nodeEnv, req, existingUser, userData>>
    /\ UNCHANGED served

\* createUser: fs.writeFile completes; res.status(201).json(user)
CreateWrite(p) ==
    /\ pc[p] = "c_write"
    /\ usersFile' = FileWith(writing[p])
    /\ Respond(p, Json(201, StringifyObj(returned[p])))
    /\ UNCHANGED <<pictures, uuidCount, clock, nodeEnv, frame>>
    /\ UNCHANGED served

\* ---------------------------------------------------- PUT /api/users/:id
\* What updateUser does with the request before it calls the store.
PutOutcome(old, body, file) ==
    IF MulterRefuses(file) THEN "refused"
    ELSE IF old = NoUser THEN "absent"
    ELSE IF ParseThrows(body) THEN "throws"
    ELSE IF file.present /\ UploadError(file) # "" THEN "throws"
    ELSE "store"

\* uploadMiddleware, then the updateUser handler: getUserById returns and
\* updatedData is built, up to the call of the store's updateUser
PutUser(p, id, body, file) ==
    LET old == getUserById(usersFile, id)
        outcome == PutOutcome(old, body, file)
        filename == Filename(uuidCount + 1, file)
    IN  /\ Take(p, Request("PUT", "/api/users/:id", id, body, file))
        /\ CanDraw(IF outcome = "store" /\ file.present THEN 1 ELSE 0)
        /\ existingUser' = [existingUser EXCEPT ![p] = old]
        /\ UNCHANGED <<usersFile, clock, nodeEnv, users, writing, returned>>
        /\ CASE outcome = "refused" ->
                  /\ Respond(p, ErrorHandler(nodeEnv, MulterError(file)))
                  /\ UNCHANGED <<pictures, uuidCount, userData>>
             [] outcome = "absent" ->
                  /\ Respond(p, Json(404, [message |-> "User not found"]))
                  /\ UNCHANGED <<pictures, uuidCount, userData>>
             [] outcome = "throws" ->
                  /\ Respond(p, Failure("Error updating user",
                        IF ParseThrows(body) THEN "SyntaxError" ELSE UploadError(file)))
                  /\ UNCHANGED <<pictures, uuidCount, userData>>
             [] outcome = "store" /\ file.present ->
                  /\ pictures' = pictures \cup {filename}
                  /\ uuidCount' = uuidCount + 1
                  /\ userData' = [userData EXCEPT
                        ![p] = [UpdateData(body, old)
                                  EXCEPT !.profilePicture = filename]]
                  /\ Await(p, "u_read")
             [] OTHER ->
                  /\ userData' = [userData EXCEPT ![p] = UpdateData(body, old)]
                  /\ Await(p, "u_read")
                  /\ UNCHANGED <<pictures, uuidCount>>

\* updateUser: getAllUsers() returns; the record is merged in place and the
\* stringified array handed to fs.writeFile, or 'User not found' is thrown
UpdateRead(p) ==
    LET arr == getAllUsers(usersFile)
        userIndex == findIndex(arr, req[p].id)
    IN  /\ pc[p] = "u_read"
        /\ users' = [users EXCEPT ![p] = arr]
        /\ UNCHANGED <<usersFile, pictures, uuidCount, nodeEnv, served, req,
                       existingUser, userData>>
        /\ IF userIndex = -1
           THEN /\ Respond(p, Failure("Error updating user", "User not found"))
                /\ UNCHANGED <<clock, writing, returned>>
           ELSE \E now \in clock..MaxClock :
                  LET merged == MergedUser(arr[userIndex], userData[p], now)
                  IN  /\ writing' = [writing EXCEPT
                            ![p] = JSON_stringify([arr EXCEPT ![userIndex] = merged])]
                      /\ returned' = [returned EXCEPT ![p] = merged]
                      /\ clock' = now
                      /\ Await(p, "u_write")

\* updateUser: fs.writeFile completes; res.status(200).json(updatedUser)
UpdateWrite(p) ==
    /\ pc[p] = "u_write"
    /\ usersFile' = FileWith(writing[p])
    /\ Respond(p, Json(200, StringifyObj(returned[p])))
    /\ UNCHANGED <<pictures, uuidCount, clock, nodeEnv, frame>>
    /\ UNCHANGED served

\* ------------------------------------------------- DELETE /api/users/:id
\* deleteUser: const user = users[userIndex]
DeletedUser(p) == find(users[p], req[p].id)

\* The deleteUser handler: getAllUsers() returns; 'User not found' is thrown,
\* or the picture's unlink is started, or (no picture) the reduced array is
\* handed to fs.writeFile
DeleteUser(p, id) ==
    LET arr == getAllUsers(usersFile)
        user == find(arr, id)
    IN  /\ Take(p, Request("DELETE", "/api/users/:id", id, NoFields, NoUpload))
        /\ users' = [users EXCEPT ![p] = arr]
        /\ UNCHANGED <<shared, existingUser, userData, returned>>
        /\ IF findIndex(arr, id) = -1
           THEN /\ Respond(p, Failure("Error deleting user", "User not found"))
                /\ UNCHANGED writing
           ELSE IF Truthy(Get(user, "profilePicture"))
           THEN /\ Await(p, "d_unlink")
                /\ UNCHANGED writing
           ELSE /\ writing' = [writing EXCEPT ![p] = JSON_stringify(filter(arr, id))]
                /\ Await(p, "d_write")

\* deleteUser: fs.unlink completes, or fails with ENOENT, which is ignored
DeleteUnlink(p) ==
    /\ pc[p] = "d_unlink"
    /\ pictures' = pictures \ {DeletedUser(p).profilePicture}
    /\ writing' = [writing EXCEPT
          ![p] = JSON_stringify(filter(users[p], req[p].id))]
    /\ Await(p, "d_write")
    /\ UNCHANGED <<usersFile, uuidCount, clock, nodeEnv, req, existingUser,
                   userData, users, returned>>
    /\ UNCHANGED served

\* A deleteUser that writes the reduced document before it removes the
\* picture: the unlink error is raised once the record is gone.
DeleteUnlinkFailsAfterWrite(p) ==
    /\ pc[p] = "d_unlink"
    /\ usersFile' = FileWith(JSON_stringify(filter(users[p], req[p].id)))
    /\ Respond(p, Failure("Error deleting user", "EIO"))
    /\ UNCHANGED <<pictures, uuidCount, clock, nodeEnv, frame>>
    /\ UNCHANGED served

\* deleteUser: fs.unlink fails with another error (EACCES, EIO...), rethrown
DeleteUnlinkFails(p) ==
    /\ pc[p] = "d_unlink"
    /\ Respond(p, Failure("Error deleting user", "EIO"))
    /\ UNCHANGED <<shared, frame>>
    /\ UNCHANGED served

\* deleteUser: fs.writeFile completes; res.status(200).json({ message })
DeleteWrite(p) ==
    /\ pc[p] = "d_write"
    /\ usersFile' = FileWith(writing[p])
    /\ Respond(p, Json(200, [message |-> "User deleted successfully"]))
    /\ UNCHANGED <<pictures, uuidCount, clock, nodeEnv, frame>>
    /\ UNCHANGED served

\* ------------------------------------------------------------ the GETs
\* GET /api/users
GetAllUsers(p) ==
    /\ Take(p, Request("GET", "/api/users", Undefined, NoFields, NoUpload))
    /\ users' = [users EXCEPT ![p] = getAllUsers(usersFile)]
    /\ Respond(p, Json(200, getAllUsers(usersFile)))
    /\ UNCHANGED <<shared, existingUser, userData, writing, returned>>

\* GET /api/users/:id
GetUserById(p, id) ==
    LET user == getUserById(usersFile, id)
    IN  /\ Take(p, Request("GET", "/api/users/:id", id, NoFields, NoUpload))
        /\ users' = [users EXCEPT ![p] = getAllUsers(usersFile)]
        /\ IF user = NoUser
           THEN Respond(p, Json(404, [message |-> "User not found"]))
           ELSE Respond(p, Json(200, user))
        /\ UNCHANGED <<shared, existingUser, userData, writing, returned>>

\* GET /api/users/:id/profile-picture: getUserById returns
GetPicture(p, id) ==
    LET user == getUserById(usersFile, id)
    IN  /\ Take(p, Request("GET", "/api/users/:id/profile-picture", id,
                           NoFields, NoUpload))
        /\ users' = [users EXCEPT ![p] = getAllUsers(usersFile)]
        /\ IF user = NoUser \/ ~Truthy(Get(user, "profilePicture"))
           THEN Respond(p, [status |-> 404, body |-> "Profile picture not found"])
           ELSE Await(p, "p_read")
        /\ UNCHANGED <<shared, existingUser, userData, writing, returned>>

\* getProfilePicture returns the bytes or null
PictureRead(p) ==
    LET filename == find(users[p], req[p].id).profilePicture
        pictureData == getProfilePicture(pictures, filename)
    IN  /\ pc[p] = "p_read"
        /\ IF pictureData = Null
           THEN Respond(p, [status |-> 404, body |-> "Profile picture not found"])
           ELSE Respond(p, [status |-> 200, body |-> pictureData,
                            contentType |-> ContentType(filename)])
        /\ UNCHANGED <<shared, served, frame>>

\* The response has gone out: the handler returns and its frame is dropped.
Finish(p) ==
    /\ pc[p] = "done"
    /\ pc' = [pc EXCEPT ![p] = "idle"]
    /\ req' = [req EXCEPT ![p] = NoRequest]
    /\ existingUser' = [existingUser EXCEPT ![p] = NoUser]
    /\ userData' = [userData EXCEPT ![p] = NoData]
    /\ users' = [users EXCEPT ![p] = <<>>]
    /\ writing' = [writing EXCEPT ![p] = NoText]
    /\ returned' = [returned EXCEPT ![p] = NoUser]
    /\ resp' = [resp EXCEPT ![p] = NoResponse]
    /\ ormResp' = [ormResp EXCEPT ![p] = NoResponse]
    /\ atomic' = [atomic EXCEPT !.applied[p] = FALSE]
    /\ UNCHANGED orm
    /\ UNCHANGED shared
    /\ UNCHANGED served

Next ==
    \/ \E p \in Procs : \E in \in PostInputs : PostUser(p, in[1], in[2])
    \/ \E p \in Procs : CreateRead(p)
    \/ \E p \in Procs : CreateWrite(p)
    \/ \E p \in Procs : \E id \in Ids : \E in \in PutInputs : PutUser(p, id, in[1], in[2])
    \/ \E p \in Procs : UpdateRead(p)
    \/ \E p \in Procs : UpdateWrite(p)
    \/ \E p \in Procs : \E id \in Ids : DeleteUser(p, id)
    \/ \E p \in Procs : DeleteUnlink(p)
    \/ \E p \in Procs : DeleteUnlinkFails(p)
    \/ \E p \in Procs : DeleteWrite(p)
    \/ \E p \in Procs : GetAllUsers(p)
    \/ \E p \in Procs : \E id \in Ids : GetUserById(p, id)
    \/ \E p \in Procs : \E id \in Ids : GetPicture(p, id)
    \/ \E p \in Procs : PictureRead(p)
    \/ \E p \in Procs : Finish(p)

Spec == Init /\ [][Next]_vars

\* The same server started with NODE_ENV set either way.
InitEnv ==
    /\ usersFile = NoSuchFile
    /\ pictures = {}
    /\ uuidCount = 0
    /\ clock = 0
    /\ nodeEnv \in {"development", "production"}
    /\ served = 0
    /\ pc = [p \in Procs |-> "idle"]
    /\ req = [p \in Procs |-> NoRequest]
    /\ existingUser = [p \in Procs |-> NoUser]
    /\ userData = [p \in Procs |-> NoData]
    /\ users = [p \in Procs |-> <<>>]
    /\ writing = [p \in Procs |-> NoText]
    /\ returned = [p \in Procs |-> NoUser]
    /\ resp = [p \in Procs |-> NoResponse]
    /\ orm = OrmStart
    /\ ormResp = [p \in Procs |-> NoResponse]
    /\ atomic = AtomicStart

SpecEnv == InitEnv /\ [][Next]_vars

\* The picture route, with uploads under every kind of file name and the
\* creates and deletes that make or remove what it serves.
NextPictures ==
    \/ \E p \in Procs : \E in \in PictureInputs : PostUser(p, in[1], in[2])
    \/ \E p \in Procs : CreateRead(p)
    \/ \E p \in Procs : CreateWrite(p)
    \/ \E p \in Procs : \E id \in Ids : DeleteUser(p, id)
    \/ \E p \in Procs : DeleteUnlink(p)
    \/ \E p \in Procs : DeleteUnlinkFails(p)
    \/ \E p \in Procs : DeleteWrite(p)
    \/ \E p \in Procs : \E id \in Ids : GetPicture(p, id)
    \/ \E p \in Procs : PictureRead(p)
    \/ \E p \in Procs : Finish(p)

SpecPictures == Init /\ [][NextPictures]_vars

\* ==================================================================
\* The ORM-backed variant: the same routes over the Sequelize model User.
\* Each of its requests is served in one step.
\* ==================================================================
\* The primary key of the n-th row inserted (AUTO_INCREMENT)
PrimaryKey(n) == ToString(n)

\* uploadMiddleware over multer.diskStorage: a file that passes fileFilter
\* and the size limit is in uploads/profile-pictures, under the name the
\* filename callback gives it, before the handler starts
diskStorage(o, file) ==
    IF file.present /\ ~MulterRefuses(file)
    THEN [o EXCEPT !.uploads = @ \cup {Filename(o.uuidCount + 1, file)},
                   !.uuidCount = @ + 1]
    ELSE o

\* req.file ? req.file.filename : dflt
FilenameOr(o, file, dflt) ==
    IF file.present THEN Filename(o.uuidCount + 1, file) ELSE dflt

\* User.findByPk(pk): the row, or null
findByPk(table, pk) == find(table, pk)

\* fullName: allowNull: false, validate: notEmpty
FullNameValid(data) == Truthy(data.fullName)

\* What a handler leaves behind: the variant's state and the response
Outcome(o, r) == [orm |-> o, resp |-> r]

\* createUser (ORM): theirId is the id the file-backed variant gave the
\* record of the same request, if it made one
OrmCreateUser(o, body, file, theirId, env, now) ==
    LET stored == diskStorage(o, file)
        data == [CreateData(body) EXCEPT !.profilePicture = FilenameOr(o, file, Null)]
        pk == PrimaryKey(o.autoIncrement + 1)
        user == Spread(data, [id |-> pk, createdAt |-> toISOString(now),
                              updatedAt |-> toISOString(now)])
    IN  IF MulterRefuses(file)
        THEN Outcome(o, ErrorHandler(env, MulterError(file)))
        ELSE IF ParseThrows(body)
        THEN Outcome(stored, Failure("Error creating user", "SyntaxError"))
        ELSE IF ~FullNameValid(data)
        THEN Outcome(stored, Failure("Error creating user", "Validation error"))
        ELSE Outcome([stored EXCEPT
                        !.table = Append(@, user),
                        !.autoIncrement = @ + 1,
                        !.twin = IF theirId \in Ids
                                 THEN [@ EXCEPT ![theirId] = pk] ELSE @],
                     Json(201, user))

\* getAllUsers (ORM)
OrmGetAllUsers(o) == Outcome(o, Json(200, o.table))

\* getUserById (ORM)
OrmGetUserById(o, pk) ==
    IF findByPk(o.table, pk) = NoUser
    THEN Outcome(o, Json(404, [message |-> "User not found"]))
    ELSE Outcome(o, Json(200, findByPk(o.table, pk)))

\* updateUser (ORM)
OrmUpdateUser(o, pk, body, file, env, now) ==
    LET stored == diskStorage(o, file)
        user == findByPk(o.table, pk)
        data == [UpdateData(body, user) EXCEPT
                   !.profilePicture = FilenameOr(o, file, Get(user, "profilePicture"))]
        updated == MergedUser(user, data, now)
    IN  IF MulterRefuses(file)
        THEN Outcome(o, ErrorHandler(env, MulterError(file)))
        ELSE IF user = NoUser
        THEN Outcome(stored, Json(404, [message |-> "User not found"]))
        ELSE IF ParseThrows(body)
        THEN Outcome(stored, Failure("Error updating user", "SyntaxError"))
        ELSE IF ~FullNameValid(data)
        THEN Outcome(stored, Failure("Error updating user", "Validation error"))
        ELSE Outcome([stored EXCEPT
                        !.table = [@ EXCEPT ![findIndex(@, pk)] = updated]],
                     Json(200, updated))

\* deleteUser (ORM): whatever fs.unlink fails with is logged and dropped
OrmDeleteUser(o, pk, unlinkFails) ==
    LET user == findByPk(o.table, pk)
        picture == Get(user, "profilePicture")
    IN  IF user = NoUser
        THEN Outcome(o, Json(404, [message |-> "User not found"]))
        ELSE Outcome([o EXCEPT
                        !.uploads = IF Truthy(picture) /\ ~unlinkFails
                                    THEN @ \ {picture} ELSE @,
                        !.table = filter(@, pk)],
                     Json(200, [message |-> "User deleted successfully"]))

\* The router of the ORM-backed variant, for the request r that the
\* file-backed variant was sent; an id of that variant is sent as its twin
OrmRoute(o, r, theirId, env, now, unlinkFails) ==
    LET pk == IF r.id \in Ids THEN o.twin[r.id] ELSE Undefined
    IN  CASE r.method = "POST" ->
               OrmCreateUser(o, r.body, r.file, theirId, env, now)
          [] r.method = "PUT" -> OrmUpdateUser(o, pk, r.body, r.file, env, now)
          [] r.method = "DELETE" -> OrmDeleteUser(o, pk, unlinkFails)
          [] r.method = "GET" /\ r.route = "/api/users" -> OrmGetAllUsers(o)
          [] OTHER -> OrmGetUserById(o, pk)

\* The ORM-backed variant serves the request handler p has answered.
OrmServe(p) ==
    /\ pc[p] = "done"
    /\ ormResp[p].status = 0
    /\ \E unlinkFails \in BOOLEAN :
         LET theirId == IF resp[p].status = 201 THEN returned[p].id ELSE Undefined
             out == OrmRoute(orm, req[p], theirId, nodeEnv, clock, unlinkFails)
         IN  /\ orm' = out.orm
             /\ ormResp' = [ormResp EXCEPT ![p] = out.resp]
    /\ UNCHANGED <<shared, served, pc, frame, resp, atomic>>

\* No request is in flight.
Quiet == \A q \in Procs : pc[q] = "idle"

\* Both variants side by side: each request is sent when the one before has
\* been answered by both.
NextBoth ==
    \/ \E p \in Procs : \E in \in PostInputs : Quiet /\ PostUser(p, in[1], in[2])
    \/ \E p \in Procs : CreateRead(p)
    \/ \E p \in Procs : CreateWrite(p)
    \/ \E p \in Procs : \E id \in Ids : \E in \in PutInputs :
         Quiet /\ PutUser(p, id, in[1], in[2])
    \/ \E p \in Procs : UpdateRead(p)
    \/ \E p \in Procs : UpdateWrite(p)
    \/ \E p \in Procs : \E id \in Ids : Quiet /\ DeleteUser(p, id)
    \/ \E p \in Procs : DeleteUnlink(p)
    \/ \E p \in Procs : DeleteUnlinkFails(p)
    \/ \E p \in Procs : DeleteWrite(p)
    \/ \E p \in Procs : Quiet /\ GetAllUsers(p)
    \/ \E p \in Procs : \E id \in Ids : Quiet /\ GetUserById(p, id)
    \/ \E p \in Procs : OrmServe(p)
    \/ \E p \in Procs : ormResp[p].status # 0 /\ Finish(p)

SpecBoth == Init /\ [][NextBoth]_vars

\* ==================================================================
\* The claims
\* ==================================================================
DataKeys ==
    {"fullName", "profession", "skills", "projects", "socials", "profilePicture"}
RecordKeys == DataKeys \cup {"id", "createdAt", "updatedAt"}

\* The request of handler p supplies field k.
Supplied(p, k) ==
    IF k = "profilePicture" THEN req[p].file.present ELSE Truthy(req[p].body[k])

\* The value the request of handler p supplies for field k.
SuppliedValue(p, k) ==
    CASE k = "profilePicture" -> userData[p].profilePicture
      [] k \in {"fullName", "profession"} -> req[p].body[k]
      [] OTHER -> ParseField(req[p].body[k])

\* No record of the document in `file` has this id.
Absent(file, id) ==
    \A i \in 1..Len(getAllUsers(file)) : getAllUsers(file)[i].id # id

\* Handler p completes the write it was awaiting at `label`.
Completes(p, label) == pc[p] = label /\ pc'[p] = "done"

\* Handler p takes a request in this step.
Takes(p) == pc[p] = "idle" /\ pc'[p] # "idle"

\* ------------------------------------------------------------------ C1
\* C1: when two updates of the same id have read the same base document and
\* the first has persisted, the second's write leaves the document holding
\* the base with only the second writer's record: every field the second
\* request supplies has its value, every field it does not supply has the
\* base value, so whatever the first writer changed there is lost.
C1_LaterWriterOnly ==
    [][\A p, q \in Procs :
         ( /\ p # q
           /\ pc[p] = "done" /\ req[p].method = "PUT" /\ resp[p].status = 200
           /\ Completes(q, "u_write")
           /\ req[q].id = req[p].id
           /\ users[q] = users[p]
           /\ existingUser[q] = find(users[q], req[q].id) )
         => LET id == req[q].id
                base == find(users[q], id)
                after == getUserById(usersFile', id)
            IN  /\ getAllUsers(usersFile') =
                     [users[q] EXCEPT ![findIndex(users[q], id)] = after]
                /\ \A k \in DataKeys :
                     /\ Supplied(q, k) => Get(after, k) = SuppliedValue(q, k)
                     /\ ~Supplied(q, k) => Get(after, k) = Get(base, k)
                     /\ (~Supplied(q, k) /\ Get(resp[p].body, k) # Get(base, k))
                          => Get(after, k) # Get(resp[p].body, k)
      ]_vars

\* Both updates have answered 200, they read the same base, the second one's
\* text is what the file holds, and a field the first one changed is back at
\* its base value.
C1_Witness ==
    \E p, q \in Procs :
      /\ p # q
      /\ pc[p] = "done" /\ req[p].method = "PUT" /\ resp[p].status = 200
      /\ pc[q] = "done" /\ req[q].method = "PUT" /\ resp[q].status = 200
      /\ req[q].id = req[p].id
      /\ users[q] = users[p]
      /\ usersFile = FileWith(writing[q])
      /\ \E k \in DataKeys :
           /\ ~Supplied(q, k)
           /\ Get(returned[p], k) # Get(find(users[p], req[p].id), k)
           /\ Get(getUserById(usersFile, req[q].id), k)
                = Get(find(users[q], req[q].id), k)

\* ------------------------------------------------------------------ C2
\* C2: an update of an id the document does not hold fails with 'User not
\* found' and leaves the document as it was: in the handler (404) when
\* getUserById finds nothing, in the store (the thrown error) when the
\* array updateUser reads does not hold the id.
C2_UpdateAbsentFails ==
    [][\A p \in Procs :
         /\ ( /\ Takes(p) /\ req'[p].method = "PUT"
              /\ ~MulterRefuses(req'[p].file)
              /\ Absent(usersFile, req'[p].id) )
            => /\ pc'[p] = "done"
               /\ resp'[p].status = 404
               /\ resp'[p].body.message = "User not found"
               /\ usersFile' = usersFile
         /\ ( /\ pc[p] = "u_read" /\ pc'[p] # "u_read"
              /\ Absent(usersFile, req[p].id) )
            => /\ pc'[p] = "done"
               /\ resp'[p].status = 500
               /\ resp'[p].body.error = "User not found"
               /\ usersFile' = usersFile
      ]_vars

\* The store's updateUser has thrown 'User not found': the record was there
\* when the handler looked and gone when the store read.
C2_Witness ==
    \E p \in Procs :
      /\ pc[p] = "done" /\ req[p].method = "PUT"
      /\ resp[p].status = 500 /\ resp[p].body.error = "User not found"
      /\ Absent(usersFile, req[p].id)

\* ------------------------------------------------------------------ C3
\* C3 as stated: when an update's write completes, the record read back by
\* id has the new value for every key of the partial record and the
\* pre-update value for every key the partial record does not have.
C3_EveryAbsentKeyKept ==
    [][\A p \in Procs :
         Completes(p, "u_write")
         => LET id == req[p].id
                old == find(users[p], id)
                partial == userData[p]
                after == getUserById(usersFile', id)
            IN  /\ after # NoUser
                /\ \A k \in DOMAIN partial : Get(after, k) = partial[k]
                /\ \A k \in DOMAIN old \ DOMAIN partial : Get(after, k) = old[k]
      ]_vars

\* C3, amended: when an update's write completes, the record read back by
\* id has the new value for every key of the partial record, the pre-update
\* value for every other key but updatedAt, which has the time updateUser
\* read, and so the pre-update value for every field the request did not
\* supply.
C3_MergeByPresence ==
    [][\A p \in Procs :
         Completes(p, "u_write")
         => LET id == req[p].id
                old == find(users[p], id)
                partial == userData[p]
                after == getUserById(usersFile', id)
            IN  /\ after # NoUser
                /\ \A k \in DOMAIN partial \ {"updatedAt"} :
                     Get(after, k) = partial[k]
                /\ after.updatedAt = returned[p].updatedAt
                /\ \E t \in 0..MaxClock : after.updatedAt = toISOString(t)
                /\ \A k \in DOMAIN old \ (DOMAIN partial \cup {"updatedAt"}) :
                     Get(after, k) = old[k]
                /\ \A k \in DataKeys :
                     (~Supplied(p, k) /\ existingUser[p] = old)
                        => Get(after, k) = Get(old, k)
      ]_vars

\* An update that supplied only skills has answered; the record has the new
\* skills and the profession it had before.
C3_Witness ==
    \E p \in Procs :
      /\ pc[p] = "done" /\ req[p].method = "PUT" /\ resp[p].status = 200
      /\ req[p].body = OnlySkills /\ ~req[p].file.present
      /\ find(users[p], req[p].id).profession = "dev"
      /\ find(users[p], req[p].id).skills = <<"x">>
      /\ getUserById(usersFile, req[p].id).profession = "dev"
      /\ getUserById(usersFile, req[p].id).skills = <<"y">>
      /\ getUserById(usersFile, req[p].id).updatedAt
           # find(users[p], req[p].id).updatedAt

\* ------------------------------------------------------------------ C4
\* C4: when a delete's write completes, getUserById finds no record of that
\* id and getProfilePicture finds no file for the picture the record named.
C4_DeleteRemoves ==
    [][\A p \in Procs :
         Completes(p, "d_write")
         => /\ getUserById(usersFile', req[p].id) = NoUser
            /\ Truthy(Get(DeletedUser(p), "profilePicture"))
                 => getProfilePicture(pictures', DeletedUser(p).profilePicture) = Null
      ]_vars

\* A record that named a picture has been deleted: record and file are gone.
C4_Witness ==
    \E p \in Procs :
      /\ pc[p] = "done" /\ req[p].method = "DELETE" /\ resp[p].status = 200
      /\ Truthy(Get(DeletedUser(p), "profilePicture"))
      /\ getUserById(usersFile, req[p].id) = NoUser
      /\ DeletedUser(p).profilePicture \notin pictures

\* ------------------------------------------------------------------ C5
\* C5: when the write of a create whose request supplied fullName and
\* nothing else completes, the stored record has empty skills, projects and
\* socials, and its id is the id of no record of the array createUser read
\* nor of the document the write replaces.
C5_CreateOnlyName ==
    [][\A p \in Procs :
         ( /\ Completes(p, "c_write")
           /\ Supplied(p, "fullName")
           /\ \A k \in DataKeys \ {"fullName"} : ~Supplied(p, k) )
         => LET stored == getUserById(usersFile', returned[p].id)
            IN  /\ stored # NoUser
                /\ stored.fullName = req[p].body.fullName
                /\ <<>> = stored.skills
                /\ <<>> = stored.projects
                /\ <<>> = stored.socials
                /\ Absent(FileWith(JSON_stringify(users[p])), stored.id)
                /\ Absent(usersFile, stored.id)
      ]_vars

\* A create that supplied only fullName has answered 201 on a document that
\* already held a record; the new record is stored beside it.
C5_Witness ==
    \E p \in Procs :
      /\ pc[p] = "done" /\ req[p].method = "POST" /\ resp[p].status = 201
      /\ req[p].body = OnlyName /\ ~req[p].file.present
      /\ Len(users[p]) = 1
      /\ Len(getAllUsers(usersFile)) = 2
      /\ <<>> = getUserById(usersFile, returned[p].id).skills
      /\ users[p][1].id # returned[p].id

\* ------------------------------------------------------------------ C6
\* C6: when a create's write completes, getUserById of the id create
\* returned finds a record equal to the returned one in each of the nine
\* fields.
C6_CreateRoundTrip ==
    [][\A p \in Procs :
         Completes(p, "c_write")
         => LET result == returned[p]
                got == getUserById(usersFile', result.id)
            IN  /\ got # NoUser
                /\ \A k \in RecordKeys : Get(got, k) = Get(result, k)
      ]_vars

\* A create without fullName has answered: the record it returned has the
\* key (undefined), the stored one has not, and field by field they agree.
C6_Witness ==
    \E p \in Procs :
      /\ pc[p] = "done" /\ req[p].method = "POST" /\ resp[p].status = 201
      /\ "fullName" \in DOMAIN returned[p]
      /\ "fullName" \notin DOMAIN getUserById(usersFile, returned[p].id)
      /\ \A k \in RecordKeys :
           Get(getUserById(usersFile, returned[p].id), k) = Get(returned[p], k)

\* ------------------------------------------------------------------ C7
\* C7: a request that carries a file that is no image, or one larger than
\* 10 MiB, is answered 500 with the validation message in the step that
\* takes it, and neither the picture directory nor the document changes.
C7_BadUploadWritesNothing ==
    [][\A p \in Procs :
         ( /\ Takes(p)
           /\ req'[p].file.present
           /\ \/ req'[p].file.mimetype[1] # "image"
              \/ req'[p].file.size > MaxFileSize )
         => /\ pc'[p] = "done"
            /\ resp'[p].status = 500
            /\ nodeEnv # "production" =>
                 resp'[p].body.error \in
                   {"Not an image! Please upload an image.", "File too large"}
            /\ pictures' = pictures
            /\ usersFile' = usersFile
      ]_vars

\* A request with a PDF has been answered 500 and no picture file exists.
C7_Witness ==
    \E p \in Procs :
      /\ pc[p] = "done" /\ resp[p].status = 500
      /\ req[p].file.present /\ req[p].file.mimetype[1] # "image"
      /\ pictures = {}

\* ------------------------------------------------------------------ C8
\* C8: GET /api/users answers 200 with the records of the document in the
\* order the document holds them, and with the empty list when the file
\* does not exist; a create's write leaves the records it read in their
\* order and the new record after them.
C8_ListAllInOrder ==
    [][\A p \in Procs :
         /\ ( Takes(p) /\ req'[p].method = "GET" /\ req'[p].route = "/api/users" )
            => /\ pc'[p] = "done"
               /\ resp'[p].status = 200
               /\ usersFile.exists => resp'[p].body = usersFile.text.json
               /\ ~usersFile.exists => resp'[p].body = <<>>
         /\ Completes(p, "c_write")
            => LET doc == getAllUsers(usersFile')
               IN  /\ Len(doc) = Len(users[p]) + 1
                   /\ \A i \in 1..Len(users[p]) : doc[i] = users[p][i]
                   /\ doc[Len(doc)].id = returned[p].id
      ]_vars

\* The list has been served with two records, the first created first.
C8_Witness ==
    \E p \in Procs :
      /\ pc[p] = "done" /\ req[p].method = "GET" /\ req[p].route = "/api/users"
      /\ resp[p].status = 200
      /\ Len(resp[p].body) = 2
      /\ resp[p].body[1].id = uuidv4(1) /\ resp[p].body[2].id = uuidv4(2)
      /\ resp[p].body = getAllUsers(usersFile)

\* ------------------------------------------------------------------ C9
\* The ids of an array of records, in order.
IdsOf(arr) == [i \in 1..Len(arr) |-> Get(arr[i], "id")]

\* C9: no two records of the document share an id; an update's write leaves
\* every record with the id it had, the updated one included, and a create's
\* write adds an id no record it read has.
C9_IdsUniqueAndFixed ==
    [][/\ \A i, j \in 1..Len(getAllUsers(usersFile')) :
            i # j => getAllUsers(usersFile')[i].id # getAllUsers(usersFile')[j].id
       /\ \A p \in Procs :
            /\ Completes(p, "u_write")
               => /\ IdsOf(getAllUsers(usersFile')) = IdsOf(users[p])
                  /\ getUserById(usersFile', req[p].id) # NoUser
            /\ Completes(p, "c_write")
               => \A i \in 1..Len(users[p]) : users[p][i].id # returned[p].id
      ]_vars

\* Two records are stored and one of them has just been updated in place.
C9_Witness ==
    \E p \in Procs :
      /\ pc[p] = "done" /\ req[p].method = "PUT" /\ resp[p].status = 200
      /\ Len(getAllUsers(usersFile)) = 2
      /\ getAllUsers(usersFile)[1].id # getAllUsers(usersFile)[2].id
      /\ resp[p].body.id = req[p].id
      /\ resp[p].body # find(users[p], req[p].id)

\* ----------------------------------------------------------------- C10
\* C10: every record of the document has a non-empty fullName.
C10_FullNameNeverEmpty ==
    \A i \in 1..Len(getAllUsers(usersFile)) :
      Truthy(Get(getAllUsers(usersFile)[i], "fullName"))

\* ----------------------------------------------------------------- C11
\* Handler p is a create or an update whose request carried a file: the
\* record it persists names the picture it has just stored.
SetsPicture(p) ==
    /\ req[p].method \in {"POST", "PUT"}
    /\ req[p].file.present
    /\ Truthy(Get(returned[p], "profilePicture"))

\* C11: when a create or an update writes the document with a record whose
\* profilePicture it has just set, the picture directory holds a file of
\* that name, whatever other requests ran in between.
C11_PictureExistsWhenSet ==
    [][\A p \in Procs :
         ( /\ Completes(p, "c_write") \/ Completes(p, "u_write")
           /\ SetsPicture(p) )
         => /\ returned[p].profilePicture = userData[p].profilePicture
            /\ returned[p].profilePicture \in pictures
            /\ returned[p].profilePicture \in pictures'
            /\ \E i \in 1..Len(getAllUsers(usersFile')) :
                 /\ getAllUsers(usersFile')[i].id = returned[p].id
                 /\ getAllUsers(usersFile')[i].profilePicture
                      = returned[p].profilePicture
      ]_vars

\* An update has stored a new picture for a record while a delete of the
\* same record ran and removed the old one; the new file is there.
C11_Witness ==
    \E p, q \in Procs :
      /\ pc[p] = "done" /\ req[p].method = "PUT" /\ resp[p].status = 200
      /\ SetsPicture(p)
      /\ pc[q] = "done" /\ req[q].method = "DELETE" /\ resp[q].status = 200
      /\ req[q].id = req[p].id
      /\ Truthy(Get(DeletedUser(q), "profilePicture"))
      /\ DeletedUser(q).profilePicture \notin pictures
      /\ getUserById(usersFile, req[p].id).profilePicture \in pictures

\* ----------------------------------------------------------------- C12
\* C12: a DELETE that has answered gave 404 when the id was not in the
\* document it read, 200 with a message when it was.
C12_DeleteAbsent404 ==
    \A p \in Procs :
      (pc[p] = "done" /\ req[p].method = "DELETE")
      => IF \A i \in 1..Len(users[p]) : users[p][i].id # req[p].id
         THEN resp[p].status = 404
         ELSE resp[p].status = 200 => "message" \in DOMAIN resp[p].body

\* ----------------------------------------------------------------- C13
\* C13: a well-formed PUT that has answered gave 404 when the id was
\* not in the document it last read and 200 otherwise, whatever ran in
\* between.
C13_Put404Or200 ==
    \A p \in Procs :
      ( /\ pc[p] = "done" /\ req[p].method = "PUT"
        /\ ~(req[p].file.present
             /\ (req[p].file.mimetype[1] # "image" \/ req[p].file.size > MaxFileSize))
        /\ \A k \in {"skills", "projects", "socials"} :
             req[p].body[k] # TxtMalformed )
      => IF \/ existingUser[p] = NoUser
            \/ \A i \in 1..Len(users[p]) : users[p][i].id # req[p].id
         THEN resp[p].status = 404
         ELSE resp[p].status = 200 /\ resp[p].body.id = req[p].id

\* ----------------------------------------------------------------- C14
\* C14: every failure response has a message, and in production none has
\* the text of the underlying error.
C14_NoErrorTextInProduction ==
    \A p \in Procs :
      resp[p].status = 500
      => /\ resp[p].body.message # ""
         /\ nodeEnv = "production" => resp[p].body.error = "{}"

Persisted(p) ==
    /\ pc[p] = "done"
    /\ req[p].method \in {"POST", "PUT", "DELETE"}
    /\ resp[p].status \in {200, 201}

\* C19: when two mutations read the same base document and the first has
\* persisted, the second's write leaves the document equal to the base with
\* the second's change alone (its record appended, merged in place, or
\* removed), both callers are answered 200 or 201, and the first's change is
\* gone: the record it created is not there, the record it deleted is back.
C19_LaterWriteWins ==
    [][\A p, q \in Procs :
         ( /\ p # q
           /\ Persisted(p)
           /\ \E label \in {"c_write", "u_write", "d_write"} : Completes(q, label)
           /\ users[q] = users[p] )
         => LET base == users[q]
                doc == getAllUsers(usersFile')
                id == req[q].id
            IN  /\ resp'[q].status \in {200, 201}
                /\ resp'[p] = resp[p]
                /\ req[q].method = "POST"
                     => /\ Len(doc) = Len(base) + 1
                        /\ \A i \in 1..Len(base) : doc[i] = base[i]
                        /\ doc[Len(doc)].id = returned[q].id
                /\ req[q].method = "PUT"
                     => /\ Len(doc) = Len(base)
                        /\ \A i \in 1..Len(base) :
                             IF base[i].id = id
                             THEN \A k \in RecordKeys :
                                    Get(doc[i], k) = Get(returned[q], k)
                             ELSE doc[i] = base[i]
                /\ req[q].method = "DELETE"
                     => doc = SelectSeq(base, LAMBDA u : u.id # id)
                /\ req[p].method = "POST"
                     => \A i \in 1..Len(doc) : doc[i].id # returned[p].id
                /\ (req[p].method = "DELETE"
                      /\ ~(req[q].method = "DELETE" /\ id = req[p].id))
                     => \E i \in 1..Len(doc) : doc[i].id = req[p].id
      ]_vars

\* A delete and an update of one record read the same document; the delete
\* persisted first, the update second, both were answered 200, and the
\* record is in the document again.
C19_Witness ==
    \E p, q \in Procs :
      /\ p # q
      /\ Persisted(p) /\ req[p].method = "DELETE"
      /\ Persisted(q) /\ req[q].method = "PUT"
      /\ req[q].id = req[p].id
      /\ users[q] = users[p]
      /\ usersFile = FileWith(writing[q])
      /\ \E i \in 1..Len(getAllUsers(usersFile)) :
           getAllUsers(usersFile)[i].id = req[p].id

\* ----------------------------------------------------------------- C20
\* The clock reading of a timestamp.
ReadingOf(stamp) == stamp[2]

\* C20: a create gives the record a createdAt and an updatedAt read off the
\* clock in that order; an update sets updatedAt to the clock's reading at
\* the update and keeps createdAt; and no record of the document has an
\* updatedAt earlier than its createdAt.
C20_Timestamps ==
    [][/\ \A i \in 1..Len(getAllUsers(usersFile')) :
            ReadingOf(getAllUsers(usersFile')[i].createdAt)
              <= ReadingOf(getAllUsers(usersFile')[i].updatedAt)
       /\ \A p \in Procs :
            /\ (pc[p] = "c_read" /\ pc'[p] = "c_write")
               => /\ clock <= ReadingOf(returned'[p].createdAt)
                  /\ ReadingOf(returned'[p].createdAt)
                       <= ReadingOf(returned'[p].updatedAt)
                  /\ ReadingOf(returned'[p].updatedAt) = clock'
            /\ (pc[p] = "u_read" /\ pc'[p] = "u_write")
               => /\ ReadingOf(returned'[p].updatedAt) = clock'
                  /\ returned'[p].createdAt
                       = getUserById(usersFile, req[p].id).createdAt
            /\ Completes(p, "u_write")
               => LET after == getUserById(usersFile', req[p].id)
                  IN  /\ after.updatedAt = returned[p].updatedAt
                      /\ after.createdAt = find(users[p], req[p].id).createdAt
      ]_vars

\* A record created at one clock reading has been updated at a later one.
C20_Witness ==
    \E p \in Procs :
      /\ pc[p] = "done" /\ req[p].method = "PUT" /\ resp[p].status = 200
      /\ ReadingOf(find(users[p], req[p].id).updatedAt) = 0
      /\ ReadingOf(getUserById(usersFile, req[p].id).createdAt) = 0
      /\ ReadingOf(getUserById(usersFile, req[p].id).updatedAt) = 1

\* ----------------------------------------------------------------- C15
\* A list field of request r is sent and is not JSON.
Malformed(r) ==
    \E k \in {"skills", "projects", "socials"} :
      Truthy(r.body[k]) /\ r.body[k] \notin {"[]", "[\"x\"]", "[\"y\"]",
                                              TxtProjects, TxtSocials}

\* The ORM-backed variant answers the request of handler p in this step.
OrmAnswers(p) == ormResp[p].status = 0 /\ ormResp'[p].status # 0

\* C15: a POST, or a PUT of a stored record, with a list field that is not
\* JSON is answered 500 and changes nothing, in either variant: the document
\* and the picture directory of the file-backed one, the table and the
\* upload directory of the ORM-backed one, are as they were.
C15_MalformedChangesNothing ==
    [][\A p \in Procs :
         /\ ( /\ Takes(p)
              /\ Malformed(req'[p])
              /\ ~req'[p].file.present \/ req'[p].file = Png
              /\ \/ req'[p].method = "POST"
                 \/ req'[p].method = "PUT" /\ ~Absent(usersFile, req'[p].id) )
            => /\ pc'[p] = "done"
               /\ resp'[p].status = 500
               /\ usersFile' = usersFile
               /\ pictures' = pictures
         /\ ( /\ OrmAnswers(p)
              /\ Malformed(req[p])
              /\ ~req[p].file.present \/ req[p].file = Png
              /\ \/ req[p].method = "POST"
                 \/ /\ req[p].method = "PUT"
                    /\ \E i \in 1..Len(orm.table) :
                         orm.table[i].id = orm.twin[req[p].id] )
            => /\ ormResp'[p].status = 500
               /\ orm'.table = orm.table
               /\ orm'.uploads = orm.uploads
      ]_vars

\* ----------------------------------------------------------------- C16
\* The fields a client sets.
ClientKeys == {"fullName", "profession", "skills", "projects", "socials"}

\* C16: when both variants have answered a request, they answered with the
\* same status and hold the same records, in the same order.
C16_SameBehaviour ==
    \A p \in Procs :
      (pc[p] = "done" /\ ormResp[p].status # 0)
      => /\ resp[p].status = ormResp[p].status
         /\ Len(getAllUsers(usersFile)) = Len(orm.table)
         /\ \A i \in 1..Len(orm.table) : \A k \in ClientKeys :
              i <= Len(getAllUsers(usersFile))
                => Get(getAllUsers(usersFile)[i], k) = Get(orm.table[i], k)

\* ----------------------------------------------------------------- C17
\* C17: a delete whose picture file is already gone still removes the
\* record and succeeds, and a delete whose picture cannot be removed for
\* another reason fails towards the caller: in the file-backed variant the
\* step that ends the unlink with an error answers 500 and writes nothing,
\* and in the ORM-backed variant a delete that leaves the picture of its
\* row in the upload directory does not answer 200.
C17_UnlinkFailureSurfaced ==
    [][\A p \in Procs :
         /\ Completes(p, "d_unlink")
            => resp'[p].status = 500 /\ usersFile' = usersFile
         /\ (pc[p] = "d_unlink" /\ pc'[p] = "d_write")
            => DeletedUser(p).profilePicture \notin pictures'
         /\ Completes(p, "d_write")
            => resp'[p].status = 200 /\ Absent(usersFile', req[p].id)
         /\ ( /\ OrmAnswers(p)
              /\ req[p].method = "DELETE"
              /\ \E i \in 1..Len(orm.table) :
                   /\ orm.table[i].id = orm.twin[req[p].id]
                   /\ orm.table[i].profilePicture \in orm'.uploads )
            => ormResp'[p].status = 500
      ]_vars

\* C23: when a delete fails because removing the picture file raised an
\* error other than ENOENT, the failure is reported and nothing was written:
\* the document and the picture directory are as they were before the failing
\* step, and a record the handler read that is still in the document is still
\* there afterwards, still naming the picture whose removal failed.
C23_FailedDeleteKeepsRecord ==
    [][\A p \in Procs :
         (Completes(p, "d_unlink") /\ resp'[p].status = 500) =>
             /\ resp'[p].body.message = "Error deleting user"
             /\ usersFile' = usersFile
             /\ pictures' = pictures
             /\ getAllUsers(usersFile') = getAllUsers(usersFile)
             /\ \A i \in 1..Len(getAllUsers(usersFile)) :
                  Get(getAllUsers(usersFile)[i], "id") = req[p].id =>
                      /\ getUserById(usersFile', req[p].id) # NoUser
                      /\ getUserById(usersFile', req[p].id).profilePicture
                            = getAllUsers(usersFile)[i].profilePicture]_vars

\* A delete has failed on the unlink while no other request changed the
\* document: the record is in the document with the picture it had when the
\* handler read it, and the picture file is still in the directory.
C23_Witness ==
    \E p \in Procs :
        /\ pc[p] = "done"
        /\ req[p].method = "DELETE"
        /\ resp[p].status = 500
        /\ resp[p].body.error = "EIO"
        /\ getAllUsers(usersFile) = users[p]
        /\ getUserById(usersFile, req[p].id) # NoUser
        /\ Truthy(getUserById(usersFile, req[p].id).profilePicture)
        /\ getUserById(usersFile, req[p].id).profilePicture
              = DeletedUser(p).profilePicture
        /\ DeletedUser(p).profilePicture \in pictures

\* ------------------------------------------------------------------
\* The store against an atomic sequential store
\* ------------------------------------------------------------------
\* create, update and delete as single steps on an in-memory list, written
\* field by field.
AtomicCreate(list, data, id, createdAt, updatedAt) ==
    list \o << [k \in RecordKeys |->
                  CASE k = "id" -> id
                    [] k = "createdAt" -> createdAt
                    [] k = "updatedAt" -> updatedAt
                    [] OTHER -> Get(data, k)] >>

AtomicUpdate(list, id, data, updatedAt) ==
    [i \in 1..Len(list) |->
        IF list[i].id # id THEN list[i]
        ELSE [k \in RecordKeys |->
                IF k = "updatedAt" THEN updatedAt
                ELSE IF k \in DOMAIN data THEN data[k]
                ELSE list[i][k]]]

RECURSIVE AtomicDelete(_, _)
AtomicDelete(list, id) ==
    IF list = <<>> THEN <<>>
    ELSE IF Head(list).id = id THEN AtomicDelete(Tail(list), id)
    ELSE <<Head(list)>> \o AtomicDelete(Tail(list), id)

\* The operation handler p has completed, applied to the in-memory list with
\* the arguments, the identifier and the time stamps the store used.  An
\* operation that failed changes nothing.
AtomicApply(p) ==
    /\ pc[p] = "done"
    /\ ~atomic.applied[p]
    /\ atomic' =
         [list |->
            CASE req[p].method = "POST" /\ resp[p].status = 201 ->
                   AtomicCreate(atomic.list, userData[p], returned[p].id,
                                returned[p].createdAt, returned[p].updatedAt)
              [] req[p].method = "PUT" /\ resp[p].status = 200 ->
                   AtomicUpdate(atomic.list, req[p].id, userData[p],
                                returned[p].updatedAt)
              [] req[p].method = "DELETE" /\ resp[p].status = 200 ->
                   AtomicDelete(atomic.list, req[p].id)
              [] OTHER -> atomic.list,
          applied |-> [atomic.applied EXCEPT ![p] = TRUE]]
    /\ UNCHANGED <<shared, served, pc, frame, resp, orm, ormResp>>

\* Handler p is between the read and the write of a store operation.
InOperation(p) == pc[p] \in {"c_write", "u_write", "d_unlink", "d_write"}

\* Handler p may start a store operation: every other operation has finished
\* its write, and has been applied to the list.
NonOverlapping(p) ==
    \A q \in Procs \ {p} :
        /\ ~InOperation(q)
        /\ pc[q] = "done" => atomic.applied[q]

\* A document two creates have left behind when the server is started again.
StoredUsers ==
    << NewUser(CreateData(AllFields), uuidv4(1), 0, 0),
       NewUser(CreateData(OnlyName), uuidv4(2), 0, 0) >>

\* The server started on an empty storage directory, or on StoredUsers.
InitSequential ==
    /\ \/ /\ usersFile = NoSuchFile
          /\ uuidCount = 0
          /\ atomic = AtomicStart
       \/ /\ usersFile = FileWith(JSON_stringify(StoredUsers))
          /\ uuidCount = Len(StoredUsers)
          /\ atomic = [AtomicStart EXCEPT !.list = StoredUsers]
    /\ pictures = {}
    /\ clock = 0
    /\ nodeEnv = "development"
    /\ served = 0
    /\ pc = [p \in Procs |-> "idle"]
    /\ req = [p \in Procs |-> NoRequest]
    /\ existingUser = [p \in Procs |-> NoUser]
    /\ userData = [p \in Procs |-> NoData]
    /\ users = [p \in Procs |-> <<>>]
    /\ writing = [p \in Procs |-> NoText]
    /\ returned = [p \in Procs |-> NoUser]
    /\ resp = [p \in Procs |-> NoResponse]
    /\ orm = OrmStart
    /\ ormResp = [p \in Procs |-> NoResponse]

\* The server with store operations that do not overlap: a create, update or
\* delete reads the document only when every other one has finished its write.
NextSequential ==
    \/ \E p \in Procs : \E in \in PostInputs : PostUser(p, in[1], in[2])
    \/ \E p \in Procs : NonOverlapping(p) /\ CreateRead(p)
    \/ \E p \in Procs : CreateWrite(p)
    \/ \E p \in Procs : \E id \in Ids : \E in \in PutInputs : PutUser(p, id, in[1], in[2])
    \/ \E p \in Procs : NonOverlapping(p) /\ UpdateRead(p)
    \/ \E p \in Procs : UpdateWrite(p)
    \/ \E p \in Procs : \E id \in Ids : NonOverlapping(p) /\ DeleteUser(p, id)
    \/ \E p \in Procs : DeleteUnlink(p)
    \/ \E p \in Procs : DeleteUnlinkFails(p)
    \/ \E p \in Procs : DeleteWrite(p)
    \/ \E p \in Procs : AtomicApply(p)
    \/ \E p \in Procs : atomic.applied[p] /\ Finish(p)

SpecSequential == InitSequential /\ [][NextSequential]_vars

\* Two lists hold the same records in the same order, field by field.
SameRecords(a, b) ==
    /\ Len(a) = Len(b)
    /\ \A i \in 1..Len(a) : \A k \in RecordKeys : Get(a[i], k) = Get(b[i], k)

\* Every operation that has finished has been applied to the list, and none
\* is between its read and its write.
Synced ==
    \A p \in Procs : ~InOperation(p) /\ (pc[p] = "done" => atomic.applied[p])

\* The store method handler p called throws 'User not found' in this step.
StoreFindsNothing(p) ==
    /\ pc[p] # "done"
    /\ pc'[p] = "done"
    /\ resp'[p].status = 500
    /\ Get(resp'[p].body, "error") = "User not found"

\* C21: when store operations do not overlap, the document holds, whenever
\* every finished operation has been applied to the in-memory list, the same
\* records as the list, in the same order and field by field, so that no
\* completed change is missing from it; and an update or a delete that the
\* store refuses with 'User not found' names an id the list does not hold
\* either.
C21_AtomicSequentialStore ==
    /\ [](Synced => SameRecords(getAllUsers(usersFile), atomic.list))
    /\ [][\A p \in Procs :
            StoreFindsNothing(p) =>
                \A i \in 1..Len(atomic.list) : atomic.list[i].id # req'[p].id]_vars

\* Three operations, the last of them a delete, have each been applied: the
\* list and the document hold the same two records, one of them updated.
C21_Witness ==
    \E p \in Procs :
        /\ Synced
        /\ served = 3
        /\ pc[p] = "done"
        /\ req[p].method = "DELETE"
        /\ resp[p].status = 200
        /\ Len(atomic.list) = 2
        /\ SameRecords(getAllUsers(usersFile), atomic.list)
        /\ \E i \in 1..2 : atomic.list[i].updatedAt # atomic.list[i].createdAt

\* C22: a mutation that overlaps no other touches only its target.  The write
\* of a create leaves the records it found as they were and where they were,
\* and adds the new one after them; the write of an update leaves every
\* record in its place and every record but the one with the id as it was;
\* the write of a delete leaves the other records, in the order they had, and
\* nothing else.  None of these writes removes a picture file, and the only
\* file a step removes is the picture of the record being deleted, which no
\* other record names.
C22_TouchesOnlyTarget ==
    [][LET before == getAllUsers(usersFile)
           after == getAllUsers(usersFile')
       IN  /\ \A p \in Procs :
                /\ Completes(p, "c_write") =>
                      /\ Len(after) = Len(before) + 1
                      /\ SubSeq(after, 1, Len(before)) = before
                      /\ after[Len(after)].id = returned[p].id
                      /\ pictures' = pictures
                /\ Completes(p, "u_write") =>
                      /\ Len(after) = Len(before)
                      /\ \A i \in 1..Len(before) :
                           /\ after[i].id = before[i].id
                           /\ before[i].id # req[p].id => after[i] = before[i]
                      /\ pictures' = pictures
                /\ Completes(p, "d_write") =>
                      /\ Len(after) = Len(before) - 1
                      /\ after = SelectSeq(before, LAMBDA u : u.id # req[p].id)
                      /\ pictures' = pictures
           /\ \A f \in pictures \ pictures' :
                \E p \in Procs :
                    /\ pc[p] = "d_unlink"
                    /\ pc'[p] = "d_write"
                    /\ f = DeletedUser(p).profilePicture
                    /\ \A i \in 1..Len(before) :
                         before[i].id # req[p].id
                             => Get(before[i], "profilePicture") # f]_vars

\* A delete has removed a record and its picture file from a document in
\* which another record has a picture: that record is in the document as it
\* was, and its picture file is in the directory.
C22_Witness ==
    \E p \in Procs :
        /\ pc[p] = "done"
        /\ req[p].method = "DELETE"
        /\ resp[p].status = 200
        /\ Truthy(Get(DeletedUser(p), "profilePicture"))
        /\ DeletedUser(p).profilePicture \notin pictures
        /\ Absent(usersFile, req[p].id)
        /\ Len(getAllUsers(usersFile)) = Len(users[p]) - 1
        /\ \E i \in 1..Len(getAllUsers(usersFile)) :
             /\ getAllUsers(usersFile)[i] \in {users[p][j] : j \in 1..Len(users[p])}
             /\ Truthy(Get(getAllUsers(usersFile)[i], "profilePicture"))
             /\ getAllUsers(usersFile)[i].profilePicture \in pictures

====
